---- MODULE Spec2Model ----
(***************************************************************************)
(* Workflow orchestration core: the sequential Orchestrator decision       *)
(* function (currentStepId cursor, retry / fallback / handler routes) and  *)
(* the WorkflowRunner loop that drives it, with the MockDataClient store   *)
(* used for persistence and resume.                                        *)
(***************************************************************************)
EXTENDS Integers, Sequences, FiniteSets, TLC

VARIABLES
    wf,               \* the WorkflowDefinition handed to execute()/resume()
    pc,               \* position of the Runner: idle, loop, await, done
    state,            \* WorkflowRunner.execute: let state
    decision,         \* WorkflowRunner.execute: result.nextAction of the last orchestrate call
    inflight,         \* step invocations whose promise has not resolved yet, oldest first
    stepsExecuted,    \* WorkflowRunner.execute: let stepsExecuted
    retriesPerformed, \* WorkflowRunner.execute: let retriesPerformed
    persist,          \* persistence of this run: "off", "on", or "flaky" (save calls may fail)
    stored,           \* MockDataClient: record of table workflow_states under key workflowId
    orphans,          \* MockDataClient: records of workflow_states under generated keys
    result,           \* what the last execute()/resume() call returned
    resumes,          \* number of resume() calls so far
    dispatches,       \* per step id: invocations issued in the current execute()
    retryDispatches,  \* ghost: step invocations issued by an automatic_retry decision
    retries,          \* per step id: automatic_retry decisions issued since it last succeeded
    failures,         \* per step id: failed invocations in the current execute()
    priorSteps        \* step invocations of the earlier execute() calls on this workflow

vars == <<wf, pc, state, decision, inflight, stepsExecuted, retriesPerformed, persist,
          stored, orphans, result, resumes, dispatches, retryDispatches, retries, failures,
          priorSteps>>

----------------------------------------------------------------------------
(* Bounds *)

MaxDispatch == 6
MaxResumes == 1
MaxHistory == 6

----------------------------------------------------------------------------
(* Values *)

Null == "null"
Undef == "undefined"
UndefNum == 0 - 1

DefaultMaxRetries == 3
DefaultMaxAttempts == 3
DefaultBaseDelayMs == 2000

LOGGABLE_STATUSES ==
    {"success", "failed", "timed_out", "retrying", "paused", "canceled", "validation_failed"}

TERMINAL_STATUSES == {"success", "failed", "timed_out", "canceled"}

NoRetryState == [defined |-> FALSE, attempt |-> 0, maxAttempts |-> 0, baseDelayMs |-> 0]

NoError == [defined |-> FALSE, type |-> Undef, retryable |-> Undef, validationMessage |-> Undef]

Err(type, retryable) ==
    [defined |-> TRUE, type |-> type, retryable |-> retryable, validationMessage |-> Undef]

\* lastError of a state whose step output failed validation, with validationMessage
ValidationErr == [Err("VALIDATION_ERROR", "false") EXCEPT !.validationMessage = "message"]

DefaultInstructions == "regenerate"

NoDecision ==
    [action |-> Undef, stepId |-> Undef, delayMs |-> 0, reason |-> Undef, attempt |-> 0,
     instructions |-> Undef]

Terminate == [NoDecision EXCEPT !.action = "TERMINATE"]

Wait == [NoDecision EXCEPT !.action = "WAIT"]

RunStep(stepId, reason) == [NoDecision EXCEPT !.stepId = stepId, !.reason = reason]

----------------------------------------------------------------------------
(* Workflow definitions *)

Step(id, deps, review, maxRetries) ==
    [stepId |-> id, dependencies |-> deps, requiresHumanReview |-> review,
     maxRetries |-> maxRetries]

Definition(steps, eh, sh, dl, fb) ==
    [steps |-> steps, errorHandler |-> eh, successHandler |-> sh,
     deadLetterHandler |-> dl, fallbackMap |-> fb]

AllIds == {"A", "B", "C", "H", "X"}

NoFallback == [s \in {} |-> Undef]

StepIdsOf(w) == {w.steps[i].stepId : i \in 1..Len(w.steps)}

\* history.some(h => h.stepId === id && h.status === "success")
HasSuccess(history, id) ==
    \E i \in 1..Len(history) : history[i].stepId = id /\ history[i].status = "success"

----------------------------------------------------------------------------
(* Sequential Orchestrator: helper methods *)

getFirstStep(w) == IF Len(w.steps) > 0 THEN <<w.steps[1]>> ELSE <<>>

\* workflow.steps.findIndex(s => s.stepId === id), 0 when there is none
findIndex(w, id) ==
    IF \E i \in 1..Len(w.steps) : w.steps[i].stepId = id
    THEN CHOOSE i \in 1..Len(w.steps) :
            /\ w.steps[i].stepId = id
            /\ \A j \in 1..(i - 1) : w.steps[j].stepId # id
    ELSE 0

\* workflow.steps.find(s => s.stepId === id), as a sequence of at most one step
findStep(w, id) == IF findIndex(w, id) = 0 THEN <<>> ELSE <<w.steps[findIndex(w, id)]>>

findNextStep(w, currentStepId) ==
    IF currentStepId = Null THEN getFirstStep(w)
    ELSE IF findIndex(w, currentStepId) = 0 THEN <<>>
    ELSE IF findIndex(w, currentStepId) + 1 <= Len(w.steps)
         THEN <<w.steps[findIndex(w, currentStepId) + 1]>>
         ELSE <<>>

appendHistory(st, status) ==
    IF st.currentStepId = Null THEN st
    ELSE IF /\ Len(st.history) > 0
            /\ st.history[Len(st.history)].stepId = st.currentStepId
            /\ st.history[Len(st.history)].status = status
         THEN st
         ELSE [st EXCEPT !.history =
                  Append(st.history, [stepId |-> st.currentStepId, status |-> status])]

maxRetriesOf(step) == IF step.maxRetries = UndefNum THEN DefaultMaxRetries ELSE step.maxRetries

shouldRetry(st, w) ==
    /\ st.currentStepId # Null
    /\ findStep(w, st.currentStepId) # <<>>
    /\ ~(st.lastError.defined /\ st.lastError.retryable = "false")
    /\ (IF st.retryState.defined THEN st.retryState.attempt ELSE 0)
          < maxRetriesOf(findStep(w, st.currentStepId)[1])

calculateBackoff(st) ==
    LET retryState == IF st.retryState.defined THEN st.retryState
                      ELSE [defined |-> TRUE, attempt |-> 0,
                            maxAttempts |-> DefaultMaxAttempts,
                            baseDelayMs |-> DefaultBaseDelayMs]
        attempt == retryState.attempt + 1
    IN  [delayMs |-> retryState.baseDelayMs * (2 ^ (attempt - 1)),
         retryState |-> [retryState EXCEPT !.attempt = attempt]]

\* the fallback map is looked up by the fallback's id, not by the failed step's
resolveFallbackByTarget(st, w) ==
    IF st.currentStepId = Null THEN Null
    ELSE IF \E k \in DOMAIN w.fallbackMap : w.fallbackMap[k] = st.currentStepId
         THEN st.currentStepId
         ELSE Null

resolveFallback(st, w) ==
    IF st.currentStepId = Null THEN Null
    ELSE IF st.currentStepId \in DOMAIN w.fallbackMap
         THEN w.fallbackMap[st.currentStepId]
         ELSE Null

\* workflow.deadLetterHandler ?? workflow.errorHandler
errorHandlerStepId(w) ==
    IF w.deadLetterHandler # Undef THEN w.deadLetterHandler ELSE w.errorHandler

----------------------------------------------------------------------------
(* Sequential Orchestrator: state handlers; each returns                   *)
(* [nextAction, updatedState]                                              *)

Outcome(nextAction, updatedState) ==
    [nextAction |-> nextAction, updatedState |-> updatedState]

handlePaused(st) == Outcome(Wait, st)

handleCanceled(st) == Outcome(Terminate, st)

handleHumanReview(st) == Outcome(Wait, st)

\* the step under the cursor is dispatched again while it is running
handleInProgressRedispatch(st) == Outcome(RunStep(st.currentStepId, Undef), st)

handleInProgress(st) == Outcome(Wait, st)

\* state.currentStepId ?? this.getFirstStep(workflow)?.stepId
currentOrFirst(st, w) ==
    IF st.currentStepId # Null THEN st.currentStepId
    ELSE IF getFirstStep(w) # <<>> THEN getFirstStep(w)[1].stepId ELSE Undef

handleRetrying(st, w) ==
    Outcome(RunStep(currentOrFirst(st, w), "retry"), [st EXCEPT !.status = "in_progress"])

handleValidationFailed(st, w) ==
    LET instructions == IF st.lastError.defined /\ st.lastError.validationMessage # Undef
                        THEN st.lastError.validationMessage
                        ELSE DefaultInstructions
    IN  Outcome([RunStep(currentOrFirst(st, w), "validation_failed")
                    EXCEPT !.instructions = instructions],
                [st EXCEPT !.status = "in_progress"])

\* the fallback step inherits the retry state of the step it replaces
handleFailureKeepsRetryState(st, w) ==
    IF shouldRetry(st, w)
    THEN LET b == calculateBackoff(st)
         IN  Outcome([RunStep(currentOrFirst(st, w), "automatic_retry")
                         EXCEPT !.delayMs = b.delayMs, !.attempt = b.retryState.attempt],
                     [st EXCEPT !.status = "in_progress", !.retryState = b.retryState])
    ELSE IF resolveFallback(st, w) # Null
    THEN Outcome(RunStep(resolveFallback(st, w), "fallback_route"),
                 [st EXCEPT !.currentStepId = resolveFallback(st, w),
                            !.status = "in_progress"])
    ELSE IF errorHandlerStepId(w) # Undef
    THEN Outcome(RunStep(errorHandlerStepId(w), st.status),
                 [st EXCEPT !.currentStepId = errorHandlerStepId(w)])
    ELSE Outcome(Terminate, st)

\* the error handler is tried before the fallback route
handleFailureHandlerFirst(st, w) ==
    IF shouldRetry(st, w)
    THEN LET b == calculateBackoff(st)
         IN  Outcome([RunStep(currentOrFirst(st, w), "automatic_retry")
                         EXCEPT !.delayMs = b.delayMs, !.attempt = b.retryState.attempt],
                     [st EXCEPT !.status = "in_progress", !.retryState = b.retryState])
    ELSE IF errorHandlerStepId(w) # Undef
    THEN Outcome(RunStep(errorHandlerStepId(w), st.status),
                 [st EXCEPT !.currentStepId = errorHandlerStepId(w)])
    ELSE IF resolveFallback(st, w) # Null
    THEN Outcome(RunStep(resolveFallback(st, w), "fallback_route"),
                 [st EXCEPT !.currentStepId = resolveFallback(st, w),
                            !.status = "in_progress",
                            !.retryState = NoRetryState])
    ELSE Outcome(Terminate, st)

handleFailure(st, w) ==
    IF shouldRetry(st, w)
    THEN LET b == calculateBackoff(st)
         IN  Outcome([RunStep(currentOrFirst(st, w), "automatic_retry")
                         EXCEPT !.delayMs = b.delayMs, !.attempt = b.retryState.attempt],
                     [st EXCEPT !.status = "in_progress", !.retryState = b.retryState])
    ELSE IF resolveFallback(st, w) # Null
    THEN Outcome(RunStep(resolveFallback(st, w), "fallback_route"),
                 [st EXCEPT !.currentStepId = resolveFallback(st, w),
                            !.status = "in_progress",
                            !.retryState = NoRetryState])
    ELSE IF errorHandlerStepId(w) # Undef
    THEN Outcome(RunStep(errorHandlerStepId(w), st.status),
                 [st EXCEPT !.currentStepId = errorHandlerStepId(w)])
    ELSE Outcome(Terminate, st)

handleSuccess(st, w) ==
    IF st.currentStepId = w.successHandler
    THEN Outcome(Terminate, [st EXCEPT !.completedAt = TRUE])
    ELSE IF findNextStep(w, st.currentStepId) = <<>>
    THEN IF w.successHandler = Undef
         THEN Outcome(Terminate, [st EXCEPT !.completedAt = TRUE])
         ELSE Outcome(RunStep(w.successHandler, Undef),
                      [st EXCEPT !.currentStepId = w.successHandler])
    ELSE LET nextStep == findNextStep(w, st.currentStepId)[1]
         IN  IF nextStep.requiresHumanReview
             THEN Outcome(Wait, [st EXCEPT !.currentStepId = nextStep.stepId,
                                           !.status = "pending_human_review"])
             ELSE Outcome(RunStep(nextStep.stepId, Undef),
                          [st EXCEPT !.currentStepId = nextStep.stepId,
                                     !.status = "in_progress"])

handlePending(st, w) ==
    IF getFirstStep(w) = <<>>
    THEN Outcome(Terminate,
                 [st EXCEPT !.status = "failed",
                            !.lastError = Err("CONFIGURATION_ERROR", "false")])
    ELSE Outcome(RunStep(getFirstStep(w)[1].stepId, Undef),
                 [st EXCEPT !.currentStepId = getFirstStep(w)[1].stepId,
                            !.status = "in_progress"])

orchestrate(st, w) ==
    LET currentState == IF st.status \in LOGGABLE_STATUSES
                        THEN appendHistory(st, st.status) ELSE st
    IN  CASE currentState.status = "paused" -> handlePaused(currentState)
          [] currentState.status = "canceled" -> handleCanceled(currentState)
          [] currentState.status = "retrying" -> handleRetrying(currentState, w)
          [] currentState.status = "validation_failed" ->
                 handleValidationFailed(currentState, w)
          [] currentState.status = "pending_human_review" -> handleHumanReview(currentState)
          [] currentState.status = "in_progress" -> handleInProgress(currentState)
          [] currentState.status \in {"failed", "timed_out"} ->
                 handleFailure(currentState, w)
          [] currentState.status = "success" -> handleSuccess(currentState, w)
          [] currentState.status = "pending" -> handlePending(currentState, w)

----------------------------------------------------------------------------
(* Orchestrator.executeStep: the results one invocation of stepId can have *)

StepResult(success, error) == [success |-> success, error |-> error]

executeStep(w, stepId) ==
    IF findStep(w, stepId) = <<>>
    THEN {StepResult(FALSE, Err("STEP_NOT_FOUND", "false"))}
    ELSE {StepResult(TRUE, NoError),
          StepResult(FALSE, Err("ACTION_NOT_FOUND", "false")),
          StepResult(FALSE, Err("EXECUTION_ERROR", "true")),
          StepResult(FALSE, Err(Undef, Undef))}

----------------------------------------------------------------------------
(* MockDataClient, table workflow_states *)

NoRecord(st) == [defined |-> FALSE, state |-> st]

\* whether a save call of the data client goes through (TRUE) or fails (FALSE)
saveOutcomes(mode) == IF mode = "flaky" THEN {TRUE, FALSE} ELSE {TRUE}

\* a failed save makes the run fail
afterPersistPropagates(st, ok) ==
    IF ok THEN st
    ELSE [st EXCEPT !.status = "failed", !.lastError = Err("EXECUTION_ERROR", "false")]

\* WorkflowRunner.persistState, catch block: the error is logged, the state is untouched
afterPersist(st, ok) == st

\* WorkflowRunner.persistState: fetchById(workflowId), then update or insert.
\* The state carries no id field, so insert files it under a generated key.
persistState(db, st, enabled) ==
    IF ~enabled THEN db
    ELSE IF db.stored.defined
         THEN [db EXCEPT !.stored = [defined |-> TRUE, state |-> st]]
         ELSE [db EXCEPT !.orphans = db.orphans + 1]

----------------------------------------------------------------------------
(* WorkflowRunner *)

InitialState(outputs) ==
    [status |-> "pending", currentStepId |-> Null, history |-> <<>>,
     retryState |-> NoRetryState, lastError |-> NoError, outputs |-> outputs,
     sharedState |-> {}, completedAt |-> FALSE]

NoResult == [returned |-> FALSE, threw |-> FALSE, success |-> FALSE]

ZeroCount == [s \in AllIds |-> 0]

\* a failed step takes the outputs written so far with it
applyStepResultClearing(st, stepId, res) ==
    IF res.success
    THEN [st EXCEPT !.outputs = st.outputs \cup {stepId},
                    !.status = "success",
                    !.retryState = NoRetryState,
                    !.lastError = NoError]
    ELSE [st EXCEPT !.status = "failed", !.lastError = res.error, !.outputs = {}]

\* lines 170-185: fold one step result into the state
applyStepResult(st, stepId, res) ==
    IF res.success
    THEN [st EXCEPT !.outputs = st.outputs \cup {stepId},
                    !.status = "success",
                    !.retryState = NoRetryState,
                    !.lastError = NoError]
    ELSE [st EXCEPT !.status = "failed", !.lastError = res.error]

\* the loop goes on without awaiting the step's promise
afterDispatchNoAwait == "loop"

\* line 162: the loop awaits the step's promise before it goes on
afterDispatch == "await"

\* lines 198-218: the code after the loop
Finalize(st) ==
    /\ \E ok \in saveOutcomes(persist) :
          /\ state' = afterPersist([st EXCEPT !.completedAt = TRUE], ok)
          /\ LET db == persistState([stored |-> stored, orphans |-> orphans],
                                    [st EXCEPT !.completedAt = TRUE], persist # "off" /\ ok)
             IN  stored' = db.stored /\ orphans' = db.orphans
    /\ result' = [returned |-> TRUE, threw |-> FALSE, success |-> (st.status = "success")]
    /\ pc' = "done"

\* lines 80-107, entered from execute() or from executeFromState()
Start(outputs, persistOn, db0) ==
    /\ persist' = persistOn
    /\ \E ok \in saveOutcomes(persistOn) :
          /\ state' = afterPersist(InitialState(outputs), ok)
          /\ LET db == persistState(db0, InitialState(outputs), persistOn # "off" /\ ok)
             IN  stored' = db.stored /\ orphans' = db.orphans
    /\ stepsExecuted' = 0
    /\ retriesPerformed' = 0
    /\ decision' = NoDecision
    /\ inflight' = <<>>
    /\ dispatches' = ZeroCount
    /\ retryDispatches' = 0
    /\ retries' = ZeroCount
    /\ failures' = ZeroCount
    /\ result' = NoResult
    /\ pc' = "loop"

execute ==
    /\ pc = "idle"
    /\ \E persistOn \in {"off", "on"} :
          Start({}, persistOn, [stored |-> stored, orphans |-> orphans])
    /\ UNCHANGED <<wf, resumes, priorSteps>>

\* execute() with config.persistState and a data client whose calls may fail
executeFlaky ==
    /\ pc = "idle"
    /\ Start({}, "flaky", [stored |-> stored, orphans |-> orphans])
    /\ UNCHANGED <<wf, resumes, priorSteps>>

\* the elapsed time is also checked while a step is in flight
LoopTimeoutPreemptive ==
    /\ pc \in {"loop", "await"}
    /\ Finalize([state EXCEPT !.status = "timed_out", !.lastError = Err("TIMEOUT", "false")])
    /\ UNCHANGED <<wf, decision, inflight, stepsExecuted, retriesPerformed, persist,
                   resumes, dispatches, retryDispatches, retries, failures, priorSteps>>

\* lines 113-122: elapsed > maxExecutionTime
LoopTimeout ==
    /\ pc = "loop"
    /\ Finalize([state EXCEPT !.status = "timed_out", !.lastError = Err("TIMEOUT", "false")])
    /\ UNCHANGED <<wf, decision, inflight, stepsExecuted, retriesPerformed, persist,
                   resumes, dispatches, retryDispatches, retries, failures, priorSteps>>

\* lines 125-144: orchestrate says TERMINATE or WAIT
LoopStop ==
    /\ pc = "loop"
    /\ LET r == orchestrate(state, wf)
       IN  /\ r.nextAction.action \in {"TERMINATE", "WAIT"}
           /\ decision' = r.nextAction
           /\ Finalize(r.updatedState)
    /\ UNCHANGED <<wf, inflight, stepsExecuted, retriesPerformed, persist,
                   resumes, dispatches, retryDispatches, retries, failures, priorSteps>>

\* lines 125-166: orchestrate names a step; the Runner waits delayMs and invokes it
LoopDispatch ==
    /\ pc = "loop"
    /\ priorSteps + stepsExecuted < MaxDispatch
    /\ LET r == orchestrate(state, wf)
       IN  /\ r.nextAction.action \notin {"TERMINATE", "WAIT"}
           /\ r.nextAction.stepId # Undef
           /\ decision' = r.nextAction
           /\ state' = r.updatedState
           /\ inflight' = Append(inflight, r.nextAction.stepId)
           /\ dispatches' = [dispatches EXCEPT ![r.nextAction.stepId] = @ + 1]
           /\ retries' = IF r.nextAction.reason = "automatic_retry"
                         THEN [retries EXCEPT ![r.nextAction.stepId] = @ + 1]
                         ELSE retries
           /\ retryDispatches' = IF r.nextAction.reason = "automatic_retry"
                                 THEN retryDispatches + 1 ELSE retryDispatches
    /\ pc' = afterDispatch
    /\ UNCHANGED <<wf, stepsExecuted, retriesPerformed, persist, stored, orphans, result,
                   resumes, failures, priorSteps>>

\* lines 162-194: the step's promise resolves; its result is applied and persisted
StepReturn ==
    /\ inflight # <<>>
    /\ LET stepId == Head(inflight) IN \E res \in executeStep(wf, stepId) :
          /\ stepsExecuted' = stepsExecuted + 1
          /\ retriesPerformed' = IF ~res.success /\ state.retryState.defined
                                 THEN retriesPerformed + 1 ELSE retriesPerformed
          /\ failures' = IF res.success THEN failures
                         ELSE [failures EXCEPT ![stepId] = @ + 1]
          /\ inflight' = Tail(inflight)
          /\ retries' = IF res.success THEN [retries EXCEPT ![stepId] = 0] ELSE retries
          /\ \E ok \in saveOutcomes(persist) :
                /\ state' = afterPersist(applyStepResult(state, stepId, res), ok)
                /\ LET db == persistState([stored |-> stored, orphans |-> orphans],
                                          applyStepResult(state, stepId, res),
                                          persist # "off" /\ ok)
                   IN  stored' = db.stored /\ orphans' = db.orphans
    /\ pc' = "loop"
    /\ UNCHANGED <<wf, decision, persist, result, resumes, dispatches, retryDispatches,
                   priorSteps>>

\* MockDataClient.seed("workflow_states", [{...state, id: workflowId}]): the state of
\* a run that stopped on WAIT is filed under its workflow id
seed ==
    /\ pc = "done"
    /\ result.returned
    /\ decision.action = "WAIT"
    /\ state.status \in {"pending_human_review", "paused"}
    /\ ~stored.defined
    /\ stored' = [defined |-> TRUE, state |-> state]
    /\ UNCHANGED <<wf, pc, state, decision, inflight, stepsExecuted, retriesPerformed,
                   persist, orphans, result, resumes, dispatches, retryDispatches, retries,
                   failures,
                   priorSteps>>

\* lines 276-286: the loaded state, patched and with its status flipped
resumedState(st, updates) ==
    LET patched == IF updates.defined
                   THEN [st EXCEPT !.outputs = updates.outputs] ELSE st
    IN  IF patched.status \in {"pending_human_review", "paused"}
        THEN [patched EXCEPT !.status = "success"] ELSE patched

\* lines 295-303: execute(workflow, initialState.context)
executeFromState(initialState, db) == Start(initialState.outputs, "off", db)

\* line 276 with no updates: state is the record object of the store itself, so the
\* status flip of line 285 is written into the store
storeAfterLoad(updates) ==
    IF updates.defined THEN stored
    ELSE [stored EXCEPT !.state = resumedState(stored.state, updates)]

ResumeUpdates(st) ==
    {[defined |-> FALSE, outputs |-> {}],
     [defined |-> TRUE, outputs |-> st.outputs \cup {"approval"}]}

resume ==
    /\ pc = "done"
    /\ resumes < MaxResumes
    /\ stored.defined
    /\ \E updates \in ResumeUpdates(stored.state) :
          executeFromState(resumedState(stored.state, updates),
                           [stored |-> storeAfterLoad(updates), orphans |-> orphans])
    /\ resumes' = resumes + 1
    /\ priorSteps' = priorSteps + stepsExecuted
    /\ UNCHANGED wf

\* lines 272-274: no record under workflowId
resumeNotFound ==
    /\ pc = "done"
    /\ resumes < MaxResumes
    /\ ~stored.defined
    /\ result' = [returned |-> FALSE, threw |-> TRUE, success |-> FALSE]
    /\ resumes' = resumes + 1
    /\ UNCHANGED <<wf, pc, state, decision, inflight, stepsExecuted, retriesPerformed,
                   persist, stored, orphans, dispatches, retryDispatches, retries,
                   failures, priorSteps>>

----------------------------------------------------------------------------
(* The workflow definitions execute() is called with *)

Reviews == {{}, {"A"}, {"B"}}

Handlers(ids) ==
    {[eh |-> e, sh |-> sh, dl |-> d] :
        e \in {Undef} \cup ids, sh \in {Undef} \cup ids, d \in {Undef} \cup ids}

OneHandler(ids) ==
    {h \in Handlers(ids) : Cardinality({h.eh, h.sh, h.dl} \ {Undef}) <= 1
                           /\ Cardinality({x \in {"eh", "sh", "dl"} : h[x] # Undef}) <= 1}

NoSteps ==
    {Definition(<<>>, h.eh, h.sh, h.dl, NoFallback) : h \in OneHandler({"H"})}

OneStep ==
    {Definition(<<Step("A", {}, rA, mA)>>, h.eh, h.sh, h.dl, NoFallback) :
        rA \in BOOLEAN, mA \in {0, 1, 2, UndefNum}, h \in OneHandler({"A", "H"})}

Dependencies ==
    {Definition(<<Step("A", d[1], "A" \in r, 0), Step("B", d[2], "B" \in r, 0)>>,
                Undef, Undef, Undef, NoFallback) :
        d \in {<<{}, {}>>, <<{}, {"A"}>>, <<{"B"}, {}>>}, r \in Reviews}

Fallbacks ==
    {NoFallback, [s \in {"A"} |-> "B"], [s \in {"B"} |-> "A"], [s \in {"A"} |-> "X"],
     [s \in {"A", "B"} |-> IF s = "A" THEN "B" ELSE "X"]}

TwoSteps ==
    {Definition(<<Step("A", {}, FALSE, mA), Step("B", {"A"}, rB, mB)>>,
                h.eh, h.sh, h.dl, fb) :
        rB \in BOOLEAN, mA \in {0, 1}, mB \in {0, 2}, fb \in Fallbacks,
        h \in OneHandler({"B", "H"})}

WithHandlerStep ==
    {Definition(<<Step("A", {}, FALSE, mA), Step("B", {"A"}, FALSE, 0),
                  Step("H", {}, FALSE, mH)>>,
                h.eh, h.sh, h.dl, fb) :
        mA \in {0, 1}, mH \in {0, 2, UndefNum}, fb \in {NoFallback, [s \in {"A"} |-> "B"]},
        h \in OneHandler({"H"}) \ {[eh |-> Undef, sh |-> Undef, dl |-> Undef]}}

Linear ==
    {Definition(<<Step("A", {}, FALSE, 0), Step("B", {"A"}, FALSE, mB),
                  Step("C", {"B"}, FALSE, 0)>>,
                Undef, Undef, Undef, NoFallback) : mB \in {0, 2}}

Workflows ==
    NoSteps \cup OneStep \cup Dependencies \cup TwoSteps \cup WithHandlerStep \cup Linear

----------------------------------------------------------------------------

Init ==
    /\ wf \in Workflows
    /\ pc = "idle"
    /\ state = InitialState({})
    /\ decision = NoDecision
    /\ inflight = <<>>
    /\ stepsExecuted = 0
    /\ retriesPerformed = 0
    /\ persist = "off"
    /\ stored = NoRecord(InitialState({}))
    /\ orphans = 0
    /\ result = NoResult
    /\ resumes = 0
    /\ dispatches = ZeroCount
    /\ retryDispatches = 0
    /\ retries = ZeroCount
    /\ failures = ZeroCount
    /\ priorSteps = 0

Next ==
    \/ execute
    \/ LoopTimeout
    \/ LoopStop
    \/ LoopDispatch
    \/ StepReturn
    \/ seed
    \/ resume
    \/ resumeNotFound

Spec == Init /\ [][Next]_vars

----------------------------------------------------------------------------
(* DAG Orchestrator (Orchestrator.ts): decisions name a batch of step ids;  *)
(* the state carries runningStepIds instead of a currentStepId cursor.      *)

WorkflowStatus ==
    {"pending", "in_progress", "pending_human_review", "success", "failed", "timed_out",
     "retrying", "paused", "canceled", "validation_failed"}

\* nextAction of the DAG Orchestrator; stepIds is <<>> where the code leaves it undefined
Batch(stepIds) == [action |-> Undef, stepIds |-> stepIds]

TerminateDag == [action |-> "TERMINATE", stepIds |-> <<>>]

WaitDag == [action |-> "WAIT", stepIds |-> <<>>]

DagState(status, running, history) ==
    [status |-> status, runningStepIds |-> running, history |-> history,
     lastError |-> NoError, completedAt |-> FALSE, startedAt |-> FALSE]

SeqToSet(q) == {q[i] : i \in 1..Len(q)}

\* state.history.filter(h => h.status === "success").map(h => h.stepId)
completedStepIds(st) ==
    {st.history[i].stepId : i \in {j \in 1..Len(st.history) : st.history[j].status = "success"}}

RECURSIVE runnableFrom(_, _, _)
\* the for loop of findRunnableSteps over steps[i..], in definition order
runnableFrom(w, st, i) ==
    IF i > Len(w.steps) THEN <<>>
    ELSE LET step == w.steps[i]
             skip == \/ step.stepId \in completedStepIds(st)
                     \/ step.stepId \in SeqToSet(st.runningStepIds)
             dependenciesMet == \A depId \in step.dependencies : depId \in completedStepIds(st)
         IN  IF ~skip /\ dependenciesMet
             THEN <<step.stepId>> \o runnableFrom(w, st, i + 1)
             ELSE runnableFrom(w, st, i + 1)

\* every step that has not completed and is not running, whatever it depends on
findRunnableStepsIgnoringDependencies(w, st) ==
    LET open == SelectSeq(w.steps,
                          LAMBDA step : /\ step.stepId \notin completedStepIds(st)
                                        /\ step.stepId \notin SeqToSet(st.runningStepIds))
    IN  [i \in 1..Len(open) |-> open[i].stepId]

findRunnableSteps(w, st) == runnableFrom(w, st, 1)

handlePausedDag(st) == Outcome(WaitDag, st)

handleCanceledDag(st) == Outcome(TerminateDag, st)

handleHumanReviewDag(st) == Outcome(WaitDag, st)

handleInProgressDag(st) == Outcome(WaitDag, st)

handleFailureDag(st, w) ==
    IF errorHandlerStepId(w) # Undef
    THEN Outcome(Batch(<<errorHandlerStepId(w)>>),
                 [st EXCEPT !.runningStepIds = <<errorHandlerStepId(w)>>])
    ELSE Outcome(TerminateDag, st)

handleSuccessDag(st, w) ==
    LET runnableSteps == findRunnableSteps(w, st)
        allStepsFinished == \A i \in 1..Len(w.steps) : HasSuccess(st.history, w.steps[i].stepId)
    IN  IF Len(runnableSteps) > 0
        THEN Outcome(Batch(runnableSteps),
                     [st EXCEPT !.runningStepIds = runnableSteps, !.status = "in_progress"])
        ELSE IF allStepsFinished
        THEN IF w.successHandler # Undef
             THEN Outcome(Batch(<<w.successHandler>>),
                          [st EXCEPT !.runningStepIds = <<w.successHandler>>])
             ELSE Outcome(TerminateDag,
                          [st EXCEPT !.status = "success", !.runningStepIds = <<>>,
                                     !.completedAt = TRUE])
        ELSE Outcome(WaitDag, st)

\* the batch is returned without looking whether it is empty
handlePendingDagUnchecked(st, w) ==
    LET runnableSteps == findRunnableSteps(w, st)
    IN  Outcome(Batch(runnableSteps),
                [st EXCEPT !.runningStepIds = runnableSteps, !.status = "in_progress",
                           !.startedAt = TRUE])

handlePendingDag(st, w) ==
    LET runnableSteps == findRunnableSteps(w, st)
    IN  IF Len(runnableSteps) = 0
        THEN Outcome(TerminateDag,
                     [st EXCEPT !.status = "failed",
                                !.lastError = Err("CONFIGURATION_ERROR", Undef)])
        ELSE Outcome(Batch(runnableSteps),
                     [st EXCEPT !.runningStepIds = runnableSteps, !.status = "in_progress",
                                !.startedAt = TRUE])

\* line 100: [...state.runningStepIds] throws a TypeError when the state has no such field
orchestrateDagThrows(st) == "runningStepIds" \notin DOMAIN st

orchestrateDag(st, w) ==
    CASE st.status = "paused" -> handlePausedDag(st)
      [] st.status = "canceled" -> handleCanceledDag(st)
      [] st.status = "pending_human_review" -> handleHumanReviewDag(st)
      [] st.status = "in_progress" -> handleInProgressDag(st)
      [] st.status \in {"failed", "timed_out"} -> handleFailureDag(st, w)
      [] st.status = "success" -> handleSuccessDag(st, w)
      [] st.status = "pending" -> handlePendingDag(st, w)
      [] OTHER -> handleFailureDag(st, w)

----------------------------------------------------------------------------
(* The DAG Orchestrator under its two callers: a direct orchestrate call on *)
(* a given state, and WorkflowRunner.execute                                *)

DagHandlers ==
    {[eh |-> Undef, sh |-> Undef, dl |-> Undef], [eh |-> "H", sh |-> Undef, dl |-> Undef],
     [eh |-> Undef, sh |-> "H", dl |-> Undef], [eh |-> "B", sh |-> Undef, dl |-> "H"]}

DagShapes ==
    {<<>>,
     <<Step("A", {}, FALSE, UndefNum)>>,
     <<Step("A", {}, FALSE, 2)>>,
     <<Step("A", {}, FALSE, UndefNum), Step("B", {"A"}, FALSE, UndefNum)>>,
     <<Step("A", {"B"}, FALSE, UndefNum), Step("B", {}, FALSE, UndefNum)>>,
     <<Step("A", {}, FALSE, UndefNum), Step("B", {}, FALSE, UndefNum)>>,
     <<Step("A", {"B"}, FALSE, UndefNum), Step("B", {"A"}, FALSE, UndefNum)>>,
     <<Step("A", {}, FALSE, UndefNum), Step("B", {"A"}, FALSE, UndefNum),
       Step("C", {"B"}, FALSE, UndefNum)>>,
     <<Step("A", {}, FALSE, UndefNum), Step("B", {}, FALSE, UndefNum),
       Step("C", {"A", "B"}, FALSE, UndefNum)>>,
     <<Step("A", {}, FALSE, UndefNum), Step("B", {"C"}, FALSE, UndefNum),
       Step("C", {"B"}, FALSE, UndefNum)>>}

DagWorkflows ==
    {Definition(steps, h.eh, h.sh, h.dl, NoFallback) : steps \in DagShapes, h \in DagHandlers}

RECURSIVE HistoriesOver(_, _)
\* histories with at most one entry (success or failed) per step, in definition order
HistoriesOver(w, i) ==
    IF i > Len(w.steps) THEN {<<>>}
    ELSE LET rest == HistoriesOver(w, i + 1)
             id == w.steps[i].stepId
         IN  rest \cup {<<[stepId |-> id, status |-> x]>> \o h :
                           x \in {"success", "failed"}, h \in rest}

RunningOver(w) == {<<>>} \cup {<<id>> : id \in StepIdsOf(w)}

\* the states orchestrate is called with; a pending state has not started anything, a
\* failed state may carry the error of the step that threw
DagStates(w) ==
    ({DagState(status, running, history) :
        status \in WorkflowStatus, running \in RunningOver(w), history \in HistoriesOver(w, 1)}
      \ {st \in {DagState("pending", running, history) :
                    running \in RunningOver(w), history \in HistoriesOver(w, 1)} :
            st.runningStepIds # <<>> \/ st.history # <<>>})
      \cup {[DagState("failed", running, history)
                EXCEPT !.lastError = Err("EXECUTION_ERROR", "true")] :
              running \in RunningOver(w), history \in HistoriesOver(w, 1)}

InitDag ==
    /\ wf \in DagWorkflows
    /\ pc = "idle"
    /\ state \in DagStates(wf)
    /\ decision = NoDecision
    /\ inflight = <<>>
    /\ stepsExecuted = 0
    /\ retriesPerformed = 0
    /\ persist = "off"
    /\ stored = NoRecord(InitialState({}))
    /\ orphans = 0
    /\ result = NoResult
    /\ resumes = 0
    /\ dispatches = ZeroCount
    /\ retryDispatches = 0
    /\ retries = ZeroCount
    /\ failures = ZeroCount
    /\ priorSteps = 0

\* orchestrator.orchestrate(state, workflow), called on a given state and once more on
\* the state it returned
callOrchestrate ==
    /\ pc \in {"idle", "decided"}
    /\ ~orchestrateDagThrows(state)
    /\ LET r == orchestrateDag(state, wf)
       IN  /\ decision' = r.nextAction
           /\ state' = r.updatedState
    /\ pc' = IF pc = "idle" THEN "decided" ELSE "decidedAgain"
    /\ UNCHANGED <<wf, inflight, stepsExecuted, retriesPerformed, persist, stored, orphans,
                   result, resumes, dispatches, retryDispatches, retries, failures, priorSteps>>

\* WorkflowRunner.execute lines 125 and 219-251: the state built by execute() has no
\* runningStepIds, orchestrate rejects, and the catch block returns the failure
LoopThrows ==
    /\ pc = "loop"
    /\ orchestrateDagThrows(state)
    /\ state' = [state EXCEPT !.status = "failed", !.completedAt = TRUE,
                              !.lastError = Err("EXECUTION_ERROR", "false")]
    /\ result' = [returned |-> TRUE, threw |-> FALSE, success |-> FALSE]
    /\ pc' = "done"
    /\ UNCHANGED <<wf, decision, inflight, stepsExecuted, retriesPerformed, persist, stored,
                   orphans, resumes, dispatches, retryDispatches, retries, failures,
                   priorSteps>>

NextDag ==
    \/ callOrchestrate
    \/ execute
    \/ LoopTimeout
    \/ LoopThrows

SpecDag == InitDag /\ [][NextDag]_vars

----------------------------------------------------------------------------
(* The sequential Orchestrator called directly on a given state *)

SeqWorkflows ==
    NoSteps \cup OneStep \cup Linear
      \cup {w \in WithHandlerStep : /\ w.steps[1].maxRetries = 0
                                    /\ w.steps[3].maxRetries = 0
                                    /\ w.fallbackMap = NoFallback}

SeqCursors(w) == {Null} \cup StepIdsOf(w)

SeqRetryStates ==
    {NoRetryState,
     [defined |-> TRUE, attempt |-> 1, maxAttempts |-> DefaultMaxAttempts,
      baseDelayMs |-> DefaultBaseDelayMs]}

SeqErrors ==
    {NoError, Err("EXECUTION_ERROR", "true"), Err("ACTION_NOT_FOUND", "false"), ValidationErr}

SeqState(status, cursor, history, retryState, lastError) ==
    [InitialState({}) EXCEPT !.status = status, !.currentStepId = cursor,
                             !.history = history, !.retryState = retryState,
                             !.lastError = lastError]

\* the states orchestrate is called with; a pending state has not started anything, and
\* the state of a workflow without steps has no cursor and no history, whatever status
\* the caller gave it
SeqStates(w) ==
    IF Len(w.steps) = 0
    THEN {InitialState({})} \cup
         {SeqState(status, Null, <<>>, NoRetryState, NoError) :
             status \in {"retrying", "validation_failed", "paused", "canceled"}}
    ELSE
    {InitialState({})} \cup
    {SeqState(status, cursor, history, retryState, lastError) :
        status \in WorkflowStatus \ {"pending"}, cursor \in SeqCursors(w),
        history \in HistoriesOver(w, 1), retryState \in SeqRetryStates,
        lastError \in SeqErrors}

InitSeq ==
    /\ wf \in SeqWorkflows
    /\ pc = "idle"
    /\ state \in SeqStates(wf)
    /\ decision = NoDecision
    /\ inflight = <<>>
    /\ stepsExecuted = 0
    /\ retriesPerformed = 0
    /\ persist = "off"
    /\ stored = NoRecord(InitialState({}))
    /\ orphans = 0
    /\ result = NoResult
    /\ resumes = 0
    /\ dispatches = ZeroCount
    /\ retryDispatches = 0
    /\ retries = ZeroCount
    /\ failures = ZeroCount
    /\ priorSteps = 0

\* orchestrator.orchestrate(state, workflow), called on a given state and once more on
\* the state it returned
callOrchestrateSeq ==
    /\ pc \in {"idle", "decided"}
    /\ LET r == orchestrate(state, wf)
       IN  /\ decision' = r.nextAction
           /\ state' = r.updatedState
    /\ pc' = IF pc = "idle" THEN "decided" ELSE "decidedAgain"
    /\ UNCHANGED <<wf, inflight, stepsExecuted, retriesPerformed, persist, stored, orphans,
                   result, resumes, dispatches, retryDispatches, retries, failures, priorSteps>>

NextSeq == callOrchestrateSeq

SpecSeq == InitSeq /\ [][NextSeq]_vars

----------------------------------------------------------------------------
(* The Runner with actions that write context.sharedState *)

\* Orchestrator.executeStep hands state.context itself to action.execute; the running
\* action sets input.context.sharedState[stepId], which is the Runner's own object
StepWrites ==
    /\ inflight # <<>>
    /\ findStep(wf, Head(inflight)) # <<>>
    /\ Head(inflight) \notin state.sharedState
    /\ state' = [state EXCEPT !.sharedState = @ \cup {Head(inflight)}]
    /\ UNCHANGED <<wf, pc, decision, inflight, stepsExecuted, retriesPerformed, persist,
                   stored, orphans, result, resumes, dispatches, retryDispatches, retries,
                   failures,
                   priorSteps>>

InitShared ==
    /\ Init
    /\ wf \in OneStep \cup Linear

NextShared ==
    \/ execute
    \/ LoopTimeout
    \/ LoopStop
    \/ LoopDispatch
    \/ StepReturn
    \/ StepWrites

SpecShared == InitShared /\ [][NextShared]_vars

----------------------------------------------------------------------------
(* The Runner without persistence, with a working and with a failing data client *)

NextPersist ==
    \/ execute
    \/ executeFlaky
    \/ LoopTimeout
    \/ LoopStop
    \/ LoopDispatch
    \/ StepReturn

SpecPersist == Init /\ [][NextPersist]_vars

----------------------------------------------------------------------------
(* The Runner with a store that holds the state of a finished run *)

\* MockDataClient.seed("workflow_states", [{...state, id: workflowId}]) with the state
\* execute() returned, whatever its status
seedFinished ==
    /\ pc = "done"
    /\ result.returned
    /\ ~stored.defined
    /\ stored' = [defined |-> TRUE, state |-> state]
    /\ UNCHANGED <<wf, pc, state, decision, inflight, stepsExecuted, retriesPerformed,
                   persist, orphans, result, resumes, dispatches, retryDispatches, retries,
                   failures,
                   priorSteps>>

InitResume ==
    /\ Init
    /\ wf \in OneStep \cup Dependencies \cup Linear

NextResume ==
    \/ execute
    \/ LoopTimeout
    \/ LoopStop
    \/ LoopDispatch
    \/ StepReturn
    \/ seedFinished
    \/ resume
    \/ resumeNotFound

SpecResume == InitResume /\ [][NextResume]_vars

----------------------------------------------------------------------------
(* The DAG Orchestrator in the loop of decisions and batch results          *)

\* Orchestrator.appendHistory: state.history.push({stepId, status, timestamp}).
\* A history of MaxHistory entries or more takes no further copy of an entry it already
\* holds: orchestrate reads the history only for which (stepId, status) pairs occur in it.
appendHistoryDag(st, stepId, status) ==
    IF /\ Len(st.history) >= MaxHistory
       /\ \E i \in 1..Len(st.history) :
              st.history[i] = [stepId |-> stepId, status |-> status]
    THEN st
    ELSE [st EXCEPT !.history = Append(@, [stepId |-> stepId, status |-> status])]

RECURSIVE applyBatch(_, _, _, _)
\* the results of a batch, appended to the history in the order of the batch
applyBatch(st, batch, results, i) ==
    IF i > Len(batch) THEN st
    ELSE applyBatch(appendHistoryDag(st, batch[i],
                                     IF results[i].success THEN "success" ELSE "failed"),
                    batch, results, i + 1)

\* the error of the first failed step of the batch
firstError(results) ==
    IF \A i \in DOMAIN results : results[i].success THEN NoError
    ELSE results[CHOOSE i \in DOMAIN results :
                    /\ ~results[i].success
                    /\ \A j \in 1..(i - 1) : results[j].success].error

\* the state after a batch: success if every step succeeded, failed with the first
\* error otherwise; nothing is running
afterBatch(st, batch, results) ==
    [applyBatch(st, batch, results, 1)
        EXCEPT !.status = IF firstError(results).defined \/ \E i \in DOMAIN results :
                                                               ~results[i].success
                          THEN "failed" ELSE "success",
               !.lastError = firstError(results),
               !.runningStepIds = <<>>]

\* definitions that break the assumed invariants: a dependency cycle, a dependency on a
\* step that does not exist, a step id used twice
BrokenShapes ==
    {<<Step("A", {"B"}, FALSE, UndefNum), Step("B", {"A"}, FALSE, UndefNum)>>,
     <<Step("A", {}, FALSE, UndefNum), Step("B", {"C"}, FALSE, UndefNum),
       Step("C", {"B"}, FALSE, UndefNum)>>,
     <<Step("A", {"A"}, FALSE, UndefNum)>>,
     <<Step("A", {"X"}, FALSE, UndefNum)>>,
     <<Step("A", {}, FALSE, UndefNum), Step("B", {"X"}, FALSE, UndefNum)>>,
     <<Step("A", {}, FALSE, UndefNum), Step("A", {}, FALSE, UndefNum)>>,
     <<Step("A", {}, FALSE, UndefNum), Step("A", {"A"}, FALSE, UndefNum)>>,
     <<Step("A", {}, FALSE, UndefNum), Step("B", {"A"}, FALSE, UndefNum),
       Step("B", {}, FALSE, UndefNum)>>}

LoopHandlers ==
    {[eh |-> Undef, sh |-> Undef, dl |-> Undef], [eh |-> "H", sh |-> Undef, dl |-> Undef],
     [eh |-> Undef, sh |-> "A", dl |-> Undef], [eh |-> Undef, sh |-> Undef, dl |-> "A"]}

BrokenWorkflows ==
    {Definition(steps, h.eh, h.sh, h.dl, NoFallback) : steps \in BrokenShapes, h \in LoopHandlers}

InitLoop ==
    /\ wf \in BrokenWorkflows
    /\ pc = "loop"
    /\ state = DagState("pending", <<>>, <<>>)
    /\ decision = NoDecision
    /\ inflight = <<>>
    /\ stepsExecuted = 0
    /\ retriesPerformed = 0
    /\ persist = "off"
    /\ stored = NoRecord(InitialState({}))
    /\ orphans = 0
    /\ result = NoResult
    /\ resumes = 0
    /\ dispatches = ZeroCount
    /\ retryDispatches = 0
    /\ retries = ZeroCount
    /\ failures = ZeroCount
    /\ priorSteps = 0

\* orchestrate says TERMINATE or WAIT: the loop is left
decideStop ==
    /\ pc = "loop"
    /\ LET r == orchestrateDag(state, wf)
       IN  /\ r.nextAction.action \in {"TERMINATE", "WAIT"}
           /\ decision' = r.nextAction
           /\ state' = r.updatedState
    /\ pc' = "done"
    /\ UNCHANGED <<wf, inflight, stepsExecuted, retriesPerformed, persist, stored, orphans,
                   result, resumes, dispatches, retryDispatches, retries, failures, priorSteps>>

\* orchestrate names a batch: its steps are invoked
decideBatch ==
    /\ pc = "loop"
    /\ LET r == orchestrateDag(state, wf)
       IN  /\ r.nextAction.action \notin {"TERMINATE", "WAIT"}
           /\ decision' = r.nextAction
           /\ state' = r.updatedState
           /\ inflight' = r.nextAction.stepIds
    /\ pc' = "await"
    /\ UNCHANGED <<wf, stepsExecuted, retriesPerformed, persist, stored, orphans,
                   result, resumes, dispatches, retryDispatches, retries, failures, priorSteps>>

\* the whole batch has resolved: its results are applied and the loop goes on
batchReturn ==
    /\ pc = "await"
    /\ \E results \in [1..Len(inflight) ->
                           UNION {executeStep(wf, inflight[i]) : i \in 1..Len(inflight)}] :
          /\ \A i \in 1..Len(inflight) : results[i] \in executeStep(wf, inflight[i])
          /\ state' = afterBatch(state, inflight, results)
    /\ inflight' = <<>>
    /\ pc' = "loop"
    /\ UNCHANGED <<wf, decision, stepsExecuted, retriesPerformed, persist, stored, orphans,
                   result, resumes, dispatches, retryDispatches, retries, failures, priorSteps>>

NextLoop ==
    \/ decideStop
    \/ decideBatch
    \/ batchReturn

SpecLoop == InitLoop /\ [][NextLoop]_vars /\ WF_vars(NextLoop)

----------------------------------------------------------------------------
(* The same loop on definitions that keep the assumed invariants *)

SoundShapes ==
    {<<Step("A", {}, FALSE, UndefNum)>>,
     <<Step("A", {}, FALSE, UndefNum), Step("B", {"A"}, FALSE, UndefNum)>>,
     <<Step("A", {}, FALSE, UndefNum), Step("B", {}, FALSE, UndefNum)>>,
     <<Step("A", {}, FALSE, UndefNum), Step("H", {}, FALSE, UndefNum)>>}

SoundHandlers ==
    {[eh |-> Undef, sh |-> Undef, dl |-> Undef], [eh |-> "H", sh |-> Undef, dl |-> Undef],
     [eh |-> Undef, sh |-> "H", dl |-> Undef], [eh |-> Undef, sh |-> Undef, dl |-> "H"]}

SoundWorkflows ==
    {Definition(steps, h.eh, h.sh, h.dl, NoFallback) : steps \in SoundShapes, h \in SoundHandlers}

InitRun ==
    /\ wf \in SoundWorkflows
    /\ pc = "loop"
    /\ state = DagState("pending", <<>>, <<>>)
    /\ decision = NoDecision
    /\ inflight = <<>>
    /\ stepsExecuted = 0
    /\ retriesPerformed = 0
    /\ persist = "off"
    /\ stored = NoRecord(InitialState({}))
    /\ orphans = 0
    /\ result = NoResult
    /\ resumes = 0
    /\ dispatches = ZeroCount
    /\ retryDispatches = 0
    /\ retries = ZeroCount
    /\ failures = ZeroCount
    /\ priorSteps = 0

SpecRun == InitRun /\ [][NextLoop]_vars /\ WF_vars(NextLoop)

----------------------------------------------------------------------------
(* Properties *)

InFlight == {inflight[i] : i \in 1..Len(inflight)}

RECURSIVE SumAttempts(_, _)
\* sum over the first n steps of (maxRetries + 1)
SumAttempts(w, n) ==
    IF n = 0 THEN 0 ELSE SumAttempts(w, n - 1) + maxRetriesOf(w.steps[n]) + 1

\* one hop per configured fallback route and per configured handler
Hops(w) ==
    Cardinality(DOMAIN w.fallbackMap)
      + Cardinality({x \in {"errorHandler", "successHandler", "deadLetterHandler"} :
                        w[x] # Undef})

RECURSIVE SumCount(_, _)
SumCount(f, ids) ==
    IF ids = {} THEN 0
    ELSE LET s == CHOOSE x \in ids : TRUE IN f[s] + SumCount(f, ids \ {s})

\* the Runner consulted the Orchestrator in this step (it did not time out first)
Consulted == pc = "loop" /\ pc' # "loop" /\ state'.status # "timed_out"

C2_DependencySound ==
    \A s \in InFlight :
        findStep(wf, s) # <<>> =>
            \A d \in findStep(wf, s)[1].dependencies : HasSuccess(state.history, d)

\* C3: one execution invokes at most sum(maxRetries + 1) steps, plus one per configured
\* fallback route or handler.
C3_DispatchBound ==
    SumCount(dispatches, AllIds) <= SumAttempts(wf, Len(wf.steps)) + Hops(wf)

IsRetry == pc = "await" /\ decision.reason = "automatic_retry"

\* C4: retry counters are per step: the attempt number of a retry decision for a step is
\* the number of retries that step itself has had, whatever other steps did before.
C4_PerStepCounter ==
    IsRetry => decision.attempt = retries[decision.stepId]

\* C5: a step of the definition is invoked at most maxRetries + 1 times in one execution.
C5_NoRetryPastMax ==
    \A s \in StepIdsOf(wf) : dispatches[s] <= maxRetriesOf(findStep(wf, s)[1]) + 1

\* C6: the n-th retry decision of a step carries the delay 2000 * 2^(n-1) ms, and a step
\* gets no more than maxRetries retry decisions.
C6_BackoffOfNthRetry ==
    IsRetry =>
        /\ decision.delayMs = DefaultBaseDelayMs * (2 ^ (retries[decision.stepId] - 1))
        /\ retries[decision.stepId] <= maxRetriesOf(findStep(wf, decision.stepId)[1])

\* C7: a step with requiresHumanReview is not invoked before an external resume; the
\* workflow goes to pending_human_review instead.
C7_ReviewGateBlocks ==
    \A s \in InFlight :
        (findStep(wf, s) # <<>> /\ findStep(wf, s)[1].requiresHumanReview) => resumes > 0

IsPrefix(a, b) == Len(a) <= Len(b) /\ \A i \in 1..Len(a) : a[i] = b[i]

\* C8: a resumed run continues from the persisted state: its history extends the
\* persisted history, and no step with a persisted success entry is invoked again.
C8_ResumeContinues ==
    (resumes > 0 /\ stored.defined /\ pc \in {"loop", "await"}) =>
        /\ IsPrefix(stored.state.history, state.history)
        /\ \A s \in InFlight : ~HasSuccess(stored.state.history, s)

\* The four routes of a failed state, in order, as the decision and the state they give.
RetryRoute ==
    /\ pc' = "await"
    /\ decision'.action = Undef
    /\ decision'.stepId = state.currentStepId
    /\ decision'.reason = "automatic_retry"
    /\ decision'.delayMs > 0
    /\ state'.status = "in_progress"
    /\ state'.currentStepId = state.currentStepId

FallbackRoute ==
    /\ pc' = "await"
    /\ decision'.action = Undef
    /\ decision'.stepId = wf.fallbackMap[state.currentStepId]
    /\ decision'.reason = "fallback_route"
    /\ state'.currentStepId = decision'.stepId

HandlerRoute ==
    /\ pc' = "await"
    /\ decision'.action = Undef
    /\ decision'.stepId =
          (IF wf.deadLetterHandler # Undef THEN wf.deadLetterHandler ELSE wf.errorHandler)
    /\ decision'.reason = state.status
    /\ state'.currentStepId = decision'.stepId

TerminateRoute ==
    /\ pc' = "done"
    /\ decision'.action = "TERMINATE"
    /\ state'.status = "failed"

HasFallback == state.currentStepId \in DOMAIN wf.fallbackMap

HasHandler == wf.deadLetterHandler # Undef \/ wf.errorHandler # Undef

FailureRouting ==
    (Consulted /\ state.status \in {"failed", "timed_out"}) =>
        IF shouldRetry(state, wf) THEN RetryRoute
        ELSE IF HasFallback THEN FallbackRoute
        ELSE IF HasHandler THEN HandlerRoute
        ELSE TerminateRoute

NonRetryableToFallback ==
    (/\ Consulted
     /\ state.status = "failed"
     /\ state.lastError.defined
     /\ state.lastError.retryable = "false"
     /\ HasFallback)
        => /\ FallbackRoute
           /\ retries' = retries

TotalFailures == SumCount(failures, AllIds)

\* the run's only failure is one failure of a step that has a fallback, it was not
\* retried, and the run ended on TERMINATE
FellBackOnce ==
    /\ pc = "done"
    /\ result.returned
    /\ decision.action = "TERMINATE"
    /\ retriesPerformed = 0
    /\ TotalFailures = 1
    /\ \E a \in DOMAIN wf.fallbackMap :
          /\ failures[a] = 1
          /\ HasSuccess(state.history, wf.fallbackMap[a])

IsLinear(w) ==
    \A i \in 1..Len(w.steps) :
        w.steps[i].dependencies = (IF i = 1 THEN {} ELSE {w.steps[i - 1].stepId})

\* execute() has returned and no step invocation failed, nor did the run time out
RanClean ==
    /\ pc = "done"
    /\ result.returned
    /\ TotalFailures = 0
    /\ state.status # "timed_out"

SuccessHistory(w) == [i \in 1..Len(w.steps) |-> [stepId |-> w.steps[i].stepId, status |-> "success"]]

\* C11: a linear workflow A -> B -> C whose step executions all succeed ends with status
\* success, an output for each of A, B, C, and exactly the three success entries A, B, C
\* as its history.
C11_LinearRunSucceeds ==
    (RanClean /\ Len(wf.steps) = 3 /\ IsLinear(wf)) =>
        /\ result.success
        /\ state.status = "success"
        /\ state.outputs = StepIdsOf(wf)
        /\ state.history = SuccessHistory(wf)

CountEntries(history, id, status) ==
    Cardinality({i \in 1..Len(history) :
                    history[i].stepId = id /\ history[i].status = status})

\* step b has maxRetries = 2 and is the only step that failed so far, in a definition
\* without fallback routes and handlers
OnlyFailing(b) ==
    /\ findStep(wf, b) # <<>>
    /\ findStep(wf, b)[1].maxRetries = 2
    /\ wf.fallbackMap = NoFallback
    /\ ~HasHandler
    /\ TotalFailures = failures[b]

\* C12: when a step B with maxRetries = 2 fails twice with a retryable error and then
\* succeeds, the final history holds exactly two failed entries and one success entry of
\* B, and its two retry decisions carry the delays 2000 ms and 4000 ms.
C12_TwoFailuresInHistory ==
    \A b \in StepIdsOf(wf) :
        OnlyFailing(b) =>
            /\ (IsRetry /\ decision.stepId = b) =>
                   decision.delayMs = DefaultBaseDelayMs * (2 ^ (failures[b] - 1))
            /\ (pc = "done" /\ result.returned /\ result.success /\ failures[b] = 2) =>
                   /\ CountEntries(state.history, b, "failed") = 2
                   /\ CountEntries(state.history, b, "success") = 1

\* orchestrate is called for the first time, on the state given
FirstCall == pc = "idle" /\ pc' = "decided"

ZeroStepsFail ==
    (FirstCall /\ state.status = "pending" /\ Len(wf.steps) = 0) =>
        /\ decision' = TerminateDag
        /\ state'.status = "failed"
        /\ state'.lastError.defined
        /\ state'.lastError.type = "CONFIGURATION_ERROR"
        /\ state'.runningStepIds = <<>>
        /\ inflight' = <<>>
        /\ LET r == orchestrate(InitialState({}), wf)
           IN  /\ r.nextAction = Terminate
               /\ r.updatedState.status = "failed"
               /\ r.updatedState.lastError.defined
               /\ r.updatedState.lastError.type = "CONFIGURATION_ERROR"

\* C13: for a definition with zero steps and a pending state, the first orchestrate call
\* (of the DAG Orchestrator and of the sequential one alike) returns TERMINATE, the
\* updated status is failed with lastError CONFIGURATION_ERROR, and no step is named.
C13_ZeroStepsConfigurationError == [][ZeroStepsFail]_vars

\* C13 witness: orchestrate has answered a pending state of a zero-step definition
C13_Witness ==
    /\ pc = "decided"
    /\ Len(wf.steps) = 0
    /\ decision = TerminateDag
    /\ state.lastError.type = "CONFIGURATION_ERROR"

\* ids of the steps without dependencies, in definition order
DependencyFree(w) ==
    LET free == SelectSeq(w.steps, LAMBDA step : step.dependencies = {})
    IN  [i \in 1..Len(free) |-> free[i].stepId]

InitialWavefront ==
    (/\ FirstCall
     /\ state.status = "pending"
     /\ state.history = <<>>
     /\ DependencyFree(wf) # <<>>)
        => /\ decision'.action = Undef
           /\ decision'.stepIds = DependencyFree(wf)
           /\ state'.status = "in_progress"
           /\ state'.runningStepIds = DependencyFree(wf)

\* C14: on a pending state with empty history and at least one dependency-free step,
\* orchestrate returns exactly the dependency-free steps, in definition order, with no
\* special action, and the updated state has status in_progress.
C14_InitialWavefront == [][InitialWavefront]_vars

\* C14 witness: the first batch leaves out a step that has a dependency and holds two
\* steps that have none
C14_Witness ==
    /\ pc = "decided"
    /\ state.status = "in_progress"
    /\ state.history = <<>>
    /\ decision.stepIds = <<"A", "B">>
    /\ Len(wf.steps) = 3

\* orchestrate is called, for the first time or on the state it returned
AnyCall == pc \in {"idle", "decided"} /\ pc' \in {"decided", "decidedAgain"}

\* the decision names no step
NoStepNamed(d) == IF "stepIds" \in DOMAIN d THEN d.stepIds = <<>> ELSE d.stepId = Undef

AllStepsCompleted(w, st) == \A id \in StepIdsOf(w) : HasSuccess(st.history, id)

TerminalIdempotent ==
    (/\ AnyCall
     /\ \/ state.status = "canceled"
        \/ /\ state.status = "success"
           /\ AllStepsCompleted(wf, state)
           /\ wf.successHandler = Undef)
        => /\ decision'.action = "TERMINATE"
           /\ NoStepNamed(decision')
           /\ state'.history = state.history
           /\ state'.status = state.status
           /\ pc = "decided" => (decision' = decision /\ state' = state)

\* C15: orchestrate on a canceled state, or on a success state with every step
\* completed and no successHandler, returns TERMINATE, names no step and leaves the
\* history as it was; the same call on the returned state gives the same result.
C15_TerminalIdempotent == [][TerminalIdempotent]_vars

\* the step ids a decision names, as a sequence
StepsNamed(d) ==
    IF "stepIds" \in DOMAIN d THEN d.stepIds
    ELSE IF d.stepId = Undef THEN <<>> ELSE <<d.stepId>>

RunningOf(st) == IF "runningStepIds" \in DOMAIN st THEN SeqToSet(st.runningStepIds) ELSE {}

\* ids, in definition order, of the steps that have no success entry, are not running,
\* and whose dependencies all have a success entry
Ready(w, history, running) ==
    LET ready == SelectSeq(w.steps,
                           LAMBDA step : /\ ~HasSuccess(history, step.stepId)
                                         /\ step.stepId \notin running
                                         /\ \A d \in step.dependencies :
                                                HasSuccess(history, d))
    IN  [i \in 1..Len(ready) |-> ready[i].stepId]

\* the history is read as returned: the sequential Orchestrator logs the success of the
\* step just run when it is called
SuccessDecision ==
    (AnyCall /\ state.status = "success") =>
        /\ decision'.action = "TERMINATE" =>
              /\ AllStepsCompleted(wf, state')
              /\ wf.successHandler = Undef
              /\ state'.completedAt
        /\ ~AllStepsCompleted(wf, state') =>
              IF Ready(wf, state'.history, RunningOf(state)) # <<>>
              THEN /\ decision'.action = Undef
                   /\ StepsNamed(decision') = Ready(wf, state'.history, RunningOf(state))
              ELSE decision'.action = "WAIT" /\ StepsNamed(decision') = <<>>

\* C16: on status success orchestrate returns TERMINATE, with completedAt set, only when
\* every step of the definition has a success entry and no successHandler is configured;
\* when some step has not completed it returns the runnable steps if there are any, and
\* WAIT otherwise.
C16_SuccessDecision == [][SuccessDecision]_vars

\* the step, or the fallback configured for it, has a success entry
CompletedOrFellBack(w, st, id) ==
    \/ HasSuccess(st.history, id)
    \/ id \in DOMAIN w.fallbackMap /\ HasSuccess(st.history, w.fallbackMap[id])

\* C17: execute() reports success = true only for a run that ended on TERMINATE with
\* status success and with every step of the definition completed successfully; a run
\* that left the loop on WAIT is never reported as a success.
C17_NoSilentFailure ==
    (pc = "done" /\ result.returned /\ result.success /\ resumes = 0) =>
        /\ state.status = "success"
        /\ decision.action = "TERMINATE"
        /\ \A id \in StepIdsOf(wf) : CompletedOrFellBack(wf, state, id)

\* the Runner's state as the DAG Orchestrator sees it: the step under the cursor is the
\* running batch
AsDagState(st) ==
    [DagState(st.status, IF st.currentStepId = Null THEN <<>> ELSE <<st.currentStepId>>,
              st.history) EXCEPT !.lastError = st.lastError]

\* a step invocation begins only as the step of the decision just taken, and only when no
\* earlier invocation is unresolved
StartedByDecision ==
    inflight' # inflight /\ Len(inflight') >= Len(inflight) =>
        /\ pc = "loop"
        /\ inflight = <<>>
        /\ decision'.action = Undef
        /\ inflight' = StepsNamed(decision')

\* while steps are running, either Orchestrator answers WAIT, names no step and returns
\* the state as it is
InProgressWaits ==
    state.status = "in_progress" =>
        /\ orchestrate(state, wf) = Outcome(Wait, state)
        /\ orchestrateDag(AsDagState(state), wf) = Outcome(WaitDag, AsDagState(state))

\* C18: no step execution begins outside the dispatch of a decision, the next decision is
\* computed only after the dispatched steps have resolved, and while the status is
\* in_progress orchestrate returns WAIT without step ids.
C18_BatchDiscipline == [][StartedByDecision]_vars /\ []InProgressWaits

\* C18 witness: a second dispatch is in flight, its state in_progress, after the first
\* one resolved
C18_Witness ==
    /\ pc = "await"
    /\ state.status = "in_progress"
    /\ inflight = <<decision.stepId>>
    /\ stepsExecuted >= 1
    /\ dispatches[decision.stepId] = 1

\* the history ends with the given entry
EndsWith(history, id, status) ==
    /\ Len(history) > 0
    /\ history[Len(history)].stepId = id
    /\ history[Len(history)].status = status

\* C19: when the Runner is about to ask for the next decision, the steps of the last
\* decision have all been invoked and have resolved, each result is in context.outputs
\* and in the history, and the status is success if they succeeded and failed, with the
\* error, otherwise.
C19_BatchApplied ==
    (pc = "loop" /\ stepsExecuted >= 1) =>
        /\ inflight = <<>>
        /\ state.status \in {"success", "failed"}
        /\ state.status = "success" =>
              /\ decision.stepId \in state.outputs
              /\ EndsWith(state.history, decision.stepId, "success")
        /\ state.status = "failed" =>
              /\ state.lastError.defined
              /\ EndsWith(state.history, decision.stepId, "failed")

SnapshotIsolation ==
    (inflight # <<>> /\ inflight' = inflight) =>
        /\ state'.sharedState = state.sharedState
        /\ state'.outputs = state.outputs

\* C20: a step works on a snapshot of the context: while an invocation has not returned,
\* context.outputs and context.sharedState of the workflow state do not change; a step's
\* writes reach the context only after it has returned.
C20_SnapshotIsolation == [][SnapshotIsolation]_vars

\* the step in which the status becomes timed_out
TimeoutCooperative ==
    (state'.status = "timed_out" /\ state.status # "timed_out") =>
        /\ pc = "loop"
        /\ inflight = <<>>
        /\ pc' = "done"
        /\ result'.returned
        /\ ~result'.success
        /\ UNCHANGED <<decision, inflight, stepsExecuted, dispatches, retryDispatches>>

TimedOutIsFinal ==
    state.status = "timed_out" =>
        /\ pc = "done"
        /\ inflight = <<>>
        /\ ~result.success

NeutralStep ==
    \/ /\ pc = "idle"
       /\ state' = InitialState({})
       /\ pc' = "loop"
    \/ /\ pc = "loop"
       /\ pc' = "done"
       /\ \/ state' = [state EXCEPT !.status = "timed_out",
                                    !.lastError = Err("TIMEOUT", "false"),
                                    !.completedAt = TRUE]
          \/ /\ decision' = orchestrate(state, wf).nextAction
             /\ state' = [orchestrate(state, wf).updatedState EXCEPT !.completedAt = TRUE]
       /\ result'.returned
       /\ result'.success = (state'.status = "success")
    \/ /\ pc = "loop"
       /\ pc' = "await"
       /\ decision' = orchestrate(state, wf).nextAction
       /\ state' = orchestrate(state, wf).updatedState
    \/ /\ pc = "await"
       /\ pc' = "loop"
       /\ \E res \in executeStep(wf, Head(inflight)) :
             state' = applyStepResult(state, Head(inflight), res)

\* C22: persistence never influences the outcome: every decision and every state of
\* execute(), up to the final status and history, is the same function of the workflow
\* and the step outcomes whether persistence is off, on, or failing on any subset of the
\* save calls, and execute() never throws.
C22_PersistenceNeutral == [][NeutralStep]_vars /\ [](~result.threw)

\* C22 witness: a run with a data client that lost at least one of its saves (each
\* save that goes through files one record) returned with status success
C22_Witness ==
    /\ persist = "flaky"
    /\ pc = "done"
    /\ stepsExecuted >= 1
    /\ orphans < stepsExecuted + 2
    /\ state.status = "success"
    /\ result.success

\* the Orchestrator is asked for a decision, by the Runner or by a direct call
Decides == Consulted \/ AnyCall

\* the step a failed state is about: the cursor, or the step that was running
FailedStep(st) ==
    IF "currentStepId" \in DOMAIN st THEN st.currentStepId
    ELSE IF st.runningStepIds # <<>> THEN st.runningStepIds[1] ELSE Null

AttemptOf(st) ==
    IF "retryState" \in DOMAIN st /\ st.retryState.defined THEN st.retryState.attempt ELSE 0

\* the failed step threw (a retryable error) and has retries of its own left
RetryOpen(st, w) ==
    /\ FailedStep(st) # Null
    /\ findStep(w, FailedStep(st)) # <<>>
    /\ findStep(w, FailedStep(st))[1].maxRetries # UndefNum
    /\ st.lastError.defined
    /\ st.lastError.retryable = "true"
    /\ AttemptOf(st) < maxRetriesOf(findStep(w, FailedStep(st))[1])

FallbackOpen(st, w) == FailedStep(st) \in DOMAIN w.fallbackMap

HandlerOpen(w) == errorHandlerStepId(w) # Undef

\* a failed state is only given up when no route is left
FailedGivenUp ==
    (/\ Decides
     /\ state.status = "failed"
     /\ decision'.action = "TERMINATE"
     /\ state'.status = "failed")
        => /\ ~RetryOpen(state, wf)
           /\ ~FallbackOpen(state, wf)
           /\ ~HandlerOpen(wf)

\* an action that throws: the invocation resolves, the error is in the state
ThrowCaptured ==
    (pc = "await" /\ pc' = "loop" /\ state'.status = "failed")
        => /\ state'.lastError \in {r.error : r \in executeStep(wf, Head(inflight))}
           /\ result' = result

\* C23: a step's error never leaves execute() as an exception: an action that throws
\* gives a failed step result (EXECUTION_ERROR, retryable) that is written to the state,
\* and a failed state is answered with TERMINATE only when the retry, the fallback and
\* the error-handler route are each used up or not applicable.
C23_StepErrorsContained ==
    /\ [][FailedGivenUp]_vars
    /\ [][ThrowCaptured]_vars
    /\ [](result.threw => resumes > 0)

\* C24: the history is append-only: over every orchestrate call, step result, save and
\* resume of a workflow instance, the history before the step is a prefix of the history
\* after it.
C24_HistoryAppendOnly == [][IsPrefix(state.history, state'.history)]_vars

\* the terminal states: success of a finished run, failed with no handler to go to,
\* timed_out, canceled
Terminal(st, w) ==
    \/ st.status \in {"timed_out", "canceled"}
    \/ st.status = "failed" /\ ~HandlerOpen(w)
    \/ st.status = "success" /\ st.completedAt

OutputsOf(st) == IF "outputs" \in DOMAIN st THEN st.outputs ELSE {}

\* a step taken on a terminal state: a further orchestrate call, or what follows the
\* return of execute()
TerminalIsFrozen ==
    (Terminal(state, wf) /\ (AnyCall \/ pc = "done"))
        => /\ NoStepNamed(decision')
           /\ inflight' = <<>>
           /\ pc' # "loop"
           /\ state'.status = state.status
           /\ state'.history = state.history
           /\ OutputsOf(state') = OutputsOf(state)

\* C25: a state whose status is terminal is immutable: no later orchestrate call and no
\* resume() of that workflow instance dispatches a step or changes its status, history
\* or outputs.
C25_TerminalImmutable == [][TerminalIsFrozen]_vars

InstructionsOf(d) == IF "instructions" \in DOMAIN d THEN d.instructions ELSE Undef

\* orchestrate is called on a state whose step failed validation
ValidationRedispatch ==
    (/\ AnyCall
     /\ state.status = "validation_failed"
     /\ FailedStep(state) # Null
     /\ findStep(wf, FailedStep(state)) # <<>>)
        => /\ decision'.action = Undef
           /\ StepsNamed(decision') = <<FailedStep(state)>>
           /\ InstructionsOf(decision') =
                 (IF state.lastError.defined /\ state.lastError.validationMessage # Undef
                  THEN state.lastError.validationMessage ELSE DefaultInstructions)
           /\ state'.status = "in_progress"
           /\ AttemptOf(state') = AttemptOf(state)

\* C26: on status validation_failed orchestrate dispatches the step that failed
\* validation once more, with the validation message as instructions, sets the status
\* to in_progress, and leaves the retry attempt counter as it was.
C26_ValidationRedispatch == [][ValidationRedispatch]_vars

\* orchestrate is called on a paused state or on one that waits for a review
WaitingStays ==
    (AnyCall /\ state.status \in {"paused", "pending_human_review"})
        => /\ decision'.action = "WAIT"
           /\ NoStepNamed(decision')
           /\ state'.status = state.status
           /\ state'.history = state.history
           /\ OutputsOf(state') = OutputsOf(state)

\* C27: on status paused or pending_human_review orchestrate returns WAIT, names no
\* step, and returns the state it was given (same status, history and outputs), for
\* every definition and on every repeated call.
C27_WaitingStays == [][WaitingStays]_vars

\* the decision is a non-empty batch of steps, or WAIT, or TERMINATE, and only one of them
OneOfThree(d) ==
    /\ d.action \in {Undef, "WAIT", "TERMINATE"}
    /\ (d.action = Undef) = (StepsNamed(d) # <<>>)

\* C28: every decision orchestrate returns, for every status and every definition, is
\* exactly one of: a non-empty list of step ids to run, WAIT, TERMINATE.
C28_OneOfThree == [][AnyCall => OneOfThree(decision')]_vars

\* a step of a running execution keeps every output written so far
OutputsKept == pc \in {"loop", "await"} => state.outputs \subseteq state'.outputs

\* C29: an output written to context.outputs stays there in every later state of the
\* execution, through the failure of a later step, a retry, a fallback and a handler hop.
C29_OutputsRetained == [][OutputsKept]_vars

\* C29 witness: A's output is still there after B failed, was retried and failed again,
\* and the run ended failed
C29_Witness ==
    /\ pc = "done"
    /\ state.status = "failed"
    /\ "A" \in state.outputs
    /\ failures["B"] >= 2
    /\ retries["B"] >= 1

MarkedAndBelowMax(st, w) ==
    /\ st.currentStepId # Null
    /\ findStep(w, st.currentStepId) # <<>>
    /\ st.lastError.defined
    /\ st.lastError.retryable = "true"
    /\ AttemptOf(st) < maxRetriesOf(findStep(w, st.currentStepId)[1])

\* the Orchestrator is asked about a failed state: it retries exactly in that case
RetryExactly ==
    (Decides /\ state.status = "failed")
        => ((decision'.reason = "automatic_retry") = MarkedAndBelowMax(state, wf))

\* C31: a failed step is retried exactly when its last error is marked retryable and
\* its attempt counter is strictly below its maxRetries; a step with maxRetries = 0 and
\* an error marked non-retryable are never retried.
C31_RetryExactly == [][RetryExactly]_vars

\* the step under the cursor was substituted for a step that failed; with no handler
\* configured the cursor gets to it in no other way while it has retries of its own
ViaFallback ==
    /\ findStep(wf, state.currentStepId) # <<>>
    /\ ~HandlerOpen(wf)
    /\ \E k \in DOMAIN wf.fallbackMap :
          wf.fallbackMap[k] = state.currentStepId /\ failures[k] > 0

\* the retry state is dropped when the fallback is dispatched
FallbackStartsFresh ==
    (Consulted /\ decision'.reason = "fallback_route") => ~state'.retryState.defined

\* a failed fallback step is retried by its own count against its own maxRetries, and
\* once that is used up its own fallbackMap entry is taken
FallbackOwnPolicy ==
    (Consulted /\ state.status = "failed" /\ ViaFallback) =>
        LET own == findStep(wf, state.currentStepId)[1]
            retryable == ~(state.lastError.defined /\ state.lastError.retryable = "false")
        IN  IF retryable /\ retries[own.stepId] < maxRetriesOf(own)
            THEN /\ decision'.reason = "automatic_retry"
                 /\ decision'.stepId = own.stepId
                 /\ decision'.attempt = retries[own.stepId] + 1
            ELSE /\ decision'.reason # "automatic_retry"
                 /\ own.stepId \in DOMAIN wf.fallbackMap =>
                       /\ decision'.reason = "fallback_route"
                       /\ decision'.stepId = wf.fallbackMap[own.stepId]

C32_WitnessChain ==
    /\ pc = "await"
    /\ failures["A"] >= 1
    /\ failures["B"] >= 1
    /\ "B" \in DOMAIN wf.fallbackMap
    /\ decision.reason = "fallback_route"
    /\ decision.stepId = wf.fallbackMap["B"]

\* a decision is taken in a loop, by the Runner or by the loop around the DAG Orchestrator
DecidesInLoop == pc = "loop" /\ pc' # "loop" /\ state'.status # "timed_out"

\* the success handler is dispatched only when every other step is through, and not
\* again once it has succeeded; after its success the decision is TERMINATE with status
\* success
SuccessHandlerOnce ==
    (/\ DecidesInLoop
     /\ wf.successHandler # Undef
     /\ \A k \in DOMAIN wf.fallbackMap : wf.fallbackMap[k] # wf.successHandler) =>
        /\ wf.successHandler \in SeqToSet(StepsNamed(decision')) =>
              /\ ~HasSuccess(state'.history, wf.successHandler)
              /\ \A id \in StepIdsOf(wf) \ {wf.successHandler} :
                    CompletedOrFellBack(wf, state', id)
        /\ (state.status = "success" /\ HasSuccess(state'.history, wf.successHandler)
               /\ \A id \in StepIdsOf(wf) : CompletedOrFellBack(wf, state', id)) =>
              /\ decision'.action = "TERMINATE"
              /\ state'.status = "success"

JustFailed(st) ==
    IF "currentStepId" \in DOMAIN st THEN st.currentStepId
    ELSE IF st.history # <<>> THEN st.history[Len(st.history)].stepId ELSE Null

ReasonOf(d) == IF "reason" \in DOMAIN d THEN d.reason ELSE Undef

\* the handler has been dispatched for the failure of another step and has failed itself
\* (an unknown handler id fails with STEP_NOT_FOUND); retries and fallbacks of the
\* handler's own are set aside
HandlerFailedOnce ==
    (/\ DecidesInLoop
     /\ state.status = "failed"
     /\ HandlerOpen(wf)
     /\ JustFailed(state) = errorHandlerStepId(wf)
     /\ StepsNamed(decision) = <<errorHandlerStepId(wf)>>
     /\ \E i \in 1..Len(state'.history) :
           /\ state'.history[i].status = "failed"
           /\ state'.history[i].stepId # errorHandlerStepId(wf)
     /\ ReasonOf(decision') \notin {"automatic_retry", "fallback_route"}) =>
        /\ decision'.action = "TERMINATE"
        /\ state'.status = "failed"

\* C34: the deadLetterHandler / errorHandler step is dispatched at most once per
\* unrecoverable failure: when the handler step itself fails, or is not a step of the
\* definition, the next orchestrate call returns TERMINATE with status failed instead of
\* dispatching the handler again.
C34_HandlerOnce == [][HandlerFailedOnce]_vars

HandlerIds(w) == {w.errorHandler, w.deadLetterHandler, w.successHandler} \ {Undef}

\* the decision that names handler h is a handler route: it answers a failed state (error
\* and dead-letter handler), or every other step is through (success handler)
ViaHandlerRoute(h) ==
    \/ h \in {wf.errorHandler, wf.deadLetterHandler} /\ state.status = "failed"
    \/ /\ h = wf.successHandler
       /\ \A id \in StepIdsOf(wf) \ {h} : CompletedOrFellBack(wf, state', id)

HandlerOnlyViaRoute ==
    DecidesInLoop =>
        \A h \in HandlerIds(wf) \cap SeqToSet(StepsNamed(decision')) : ViaHandlerRoute(h)

\* C35: a step named as errorHandler, deadLetterHandler or successHandler is dispatched
\* only through its handler route (after an unrecoverable failure, or after all other
\* steps have completed), never as an ordinary member of a dependency wavefront or of the
\* definition-order sequence.
C35_HandlerOnlyViaRoute == [][HandlerOnlyViaRoute]_vars

\* the step failed, never produced an output afterwards and has no fallback configured:
\* at the end of the run it has been given up
GivenUp(w, st, id) ==
    /\ failures[id] > 0
    /\ id \notin OutputsOf(st)
    /\ id \notin DOMAIN w.fallbackMap

\* C36: if some step has failed with no retry left and no fallback, execute() never
\* returns success = true for that run, even when the error or dead-letter handler step
\* subsequently succeeds.
C36_GivenUpNeverSuccess ==
    (pc = "done" /\ result.returned /\ resumes = 0
        /\ \E id \in StepIdsOf(wf) : GivenUp(wf, state, id)) => ~result.success

TerminalStatuses == {"success", "failed", "timed_out", "canceled"}

\* C37: completedAt is set on a workflow state only when its status is terminal (success,
\* failed, timed_out, canceled): a run that leaves the loop on WAIT (paused,
\* pending_human_review, in_progress or blocked) returns a state with completedAt unset.
C37_CompletedAtTerminal ==
    (pc = "done" /\ result.returned /\ resumes = 0) =>
        /\ state.completedAt => state.status \in TerminalStatuses
        /\ decision.action = "WAIT" => ~state.completedAt

\* C38: at the end of execute(), metadata.retriesPerformed equals the number of retry
\* dispatches that were executed during the run (step invocations issued by an
\* automatic-retry decision), for every sequence of step outcomes.
C38_RetriesCounted ==
    (pc = "done" /\ (result.returned \/ result.threw)) => retriesPerformed = retryDispatches

\* C39: persisted state round-trips by workflow id: after execute() has saved a
\* workflow's state any number of times with persistence enabled, the store holds exactly
\* one record retrievable under that workflowId, it equals the most recently saved state,
\* and resume() with that workflowId loads it.
C39_PersistRoundTrip ==
    (pc = "done" /\ result.returned /\ persist = "on" /\ resumes = 0) =>
        /\ stored.defined
        /\ stored.state = state
        /\ orphans = 0

====
